---- MODULE Spec2Model ----
(***************************************************************************)
(* Model of the sequential batch-download queue of y2bdownload:            *)
(*   server/services/downloadQueue.js  (task store, processing loop,       *)
(*                                      fetcher, lifecycle operations)     *)
(*   server/routes/api.js              (the /queue/... HTTP routes)        *)
(*                                                                         *)
(* JavaScript objects are modelled as heap cells: `heap` holds the task    *)
(* records in creation order and the two Maps hold references (indices     *)
(* into the heap) or arrays keyed by task id, exactly as the module-level  *)
(* Maps of the source do.  A processing loop keeps the reference it read   *)
(* on entry (`const task = downloadQueue.get(taskId)`) but looks the       *)
(* completed-file array up by id every time it pushes.                     *)
(*                                                                         *)
(* null is the empty tuple; every nullable value is a non-empty tuple.     *)
(***************************************************************************)
EXTENDS Integers, Sequences, FiniteSets, TLC

\* ---------------------------------------------------------------- bounds
MaxItems == 2      \* URLs submitted in one run, over all its tasks
MaxTime == 1       \* milliseconds the clock advances in one run
MaxFormatLen == 4  \* hyphens and runs in a format string (FormatSpec)

\* ------------------------------------------------------ program constants
RandDigits == 9    \* .substr(2, 9)

Null == <<>>

\* every task has at least one URL (POST /queue/create answers 400
\* otherwise), so a run has at most MaxItems tasks of at most MaxItems URLs
MaxTasks == MaxItems
MaxUrls == MaxItems

\* the URL lists submitted: "A", "B", "A", ... cut at every length
UrlAt(i) == IF i % 2 = 1 THEN "A" ELSE "B"
UrlLists == {[i \in 1..n |-> UrlAt(i)] : n \in 1..MaxUrls}
\* A format string is the sequence of its hyphens ("-") and of the runs of
\* other characters between them: 'bestaudio--mp3'
Formats == {<<"bestaudio", "-", "-", "mp3">>}

\* every format string of up to MaxFormatLen hyphens and runs, 'best',
\* 'bestaudio--m4a', 'best--', '--m4a' and 'best----' among them
FormatChunks == {"best", "bestaudio", "m4a", "-"}
FormatStrings == UNION {[1..n -> FormatChunks] : n \in 0..MaxFormatLen}

\* The digits of Math.random().toString(36) after "0.", as strings of
\* digits.  Two draws may be equal; with this set they always are, so two
\* ids differ exactly when the clock advanced between them.
RandomStrings == {<<1>>}

Min(a, b) == IF a < b THEN a ELSE b

\* s.substr(2, 9) on "0.<digits>": at most nine digits of the expansion
substr(s) == SubSeq(s, 1, Min(Len(s), RandDigits))

\* Date.now() + '-' + Math.random().toString(36).substr(2, 9)
newId(ms, r) == <<ms, substr(r)>>

Ids == {newId(ms, r) : ms \in 0..MaxTime, r \in RandomStrings}

\* an id no createTask call of a run returns: its timestamp is out of reach
UnknownId == newId(MaxTime + 1, <<1>>)

VARIABLES
  now,             \* Date.now()
  heap,            \* the task records ever constructed, in creation order
  downloadQueue,   \* Map taskId -> task record (a heap index)
  completedFiles,  \* Map taskId -> array of descriptors
  disk,            \* temporary files present in os.tmpdir()
  proc,            \* per task record: position of its processQueue call
  fetchLog,        \* history: per task record, the downloadFile calls made
  submitted,       \* history: per task record, createTask's arguments
  drained,         \* history: per task id, descriptors returned by drain
  resp,            \* the last DELETE /queue/:taskId: its id and answer
  reply,           \* the last answer of POST /queue/create
  client,          \* the page: its batch download handler and poll timer
  proxy            \* a GET /proxy-download request and its tool run

\* the state of the server process and its directory
server == <<now, heap, downloadQueue, completedFiles, disk, proc, fetchLog,
            submitted, drained, resp, reply>>

vars == <<server, client, proxy>>

Objs == 1..Len(heap)

\* Map.set(key, value)
MapSet(m, k, v) == [x \in DOMAIN m \cup {k} |-> IF x = k THEN v ELSE m[x]]

\* Map.delete(key)
MapDelete(m, k) == [x \in DOMAIN m \ {k} |-> m[x]]

\* Map.has / a truthy Map.get
Has(m, k) == k \in DOMAIN m

\* ------------------------------------------------------------ entities

\* items that are born 'downloading'
newItemDownloading(url, format) ==
  [url |-> url, format |-> format, status |-> "downloading",
   filename |-> Null, filepath |-> Null, error |-> Null]

\* one element of task.items (createTask, lines 22-29)
newItem(url, format) ==
  [url |-> url, format |-> format, status |-> "pending",
   filename |-> Null, filepath |-> Null, error |-> Null]

\* the record createTask stores under the id (lines 21-32); `id` is the key
\* processQueue was called with and keeps in its closure
newTask(taskId, urls, format) ==
  [id |-> taskId,
   items |-> [i \in 1..Len(urls) |-> newItem(urls[i], format)],
   currentIndex |-> 0,
   status |-> "processing"]

\* task.items[i] for a 0-based i that is in range
ItemAt(task, i) == task.items[i + 1]

\* ------------------------------------------------------- the file system
Exts == {"mp3", "m4a"}

\* tempFilePath + '.' + ext, the name the tool gives its output
fileOf(tempId, ext) == <<tempId[1], tempId[2], ext>>

IsPrefix(p, s) == Len(p) <= Len(s) /\ SubSeq(s, 1, Len(p)) = p

\* f.startsWith(`ytdl-${tempId}`): the timestamps have the same number of
\* digits and the random part holds no '-' or '.', so the name starts with
\* the prefix iff the timestamps agree and the random part is a prefix
startsWith(f, tempId) == f[1] = tempId[1] /\ IsPrefix(tempId[2], f[2])

\* fs.readdirSync(tempDir).filter(f => f.startsWith(`ytdl-${tempId}`))
matchingFiles(dsk, tempId) == {f \in dsk : startsWith(f, tempId)}

\* --------------------------------------------------------- downloadFile
\* What one run of the external tool can do, as the 'close' / 'error'
\* handlers see it:
\*   ok         exit 0 and the output file written
\*   missing    exit 0 and nothing written
\*   failed     exit code other than 0, stderr collected
\*   spawnError the 'error' event (the tool could not be started)
\* `title` is whether the follow-up `yt-dlp --get-title` yields a title
\* (it does not when execSync throws or the title is empty); `ext` is the
\* extension the tool gives the file it writes.
AllEvents ==
  {[kind |-> "ok", title |-> b, ext |-> e] : b \in BOOLEAN, e \in Exts}
    \cup {[kind |-> "missing", title |-> b, ext |-> "mp3"] : b \in BOOLEAN}
    \cup {[kind |-> k, title |-> FALSE, ext |-> "mp3"] : k \in {"failed", "spawnError"}}

\* the runs in which the title lookup, when it is made, yields a title and
\* the file written is an mp3
Events ==
  {ev \in AllEvents :
     /\ ev.kind \in {"ok", "missing"} => ev.title
     /\ ev.ext = "mp3"}

Stderr == <<"ERROR: unable to download">>
NotFoundMsg == <<"Downloaded file not found">>
SpawnMsg == <<"spawn yt-dlp ENOENT">>
TypeErrorMsg == <<"Cannot read properties of undefined (reading 'push')">>

\* the files a tool run leaves in the directory (-o tempFilePath.%(ext)s)
written(tempId, ev) ==
  IF ev.kind = "ok" THEN {fileOf(tempId, ev.ext)} ELSE {}

toolWrites(dsk, tempId, ev) == dsk \cup written(tempId, ev)

\* `download${ext}`, replaced by the sanitized title when one was read
filenameOf(ev, f) == IF ev.title THEN <<"title", f[3]>> ELSE <<"download", f[3]>>

Reject(msg) == [ok |-> FALSE, filename |-> Null, filepath |-> Null, error |-> msg]
Resolve(name, path) == [ok |-> TRUE, filename |-> name, filepath |-> path, error |-> Null]

TitleMsg == <<"Command failed: yt-dlp --get-title">>

\* a handler that lets the exception of the title lookup through
downloadFileResultsTitleFatal(ev, tempId, dsk) ==
  IF ev.kind = "spawnError" THEN {Reject(SpawnMsg)}
  ELSE IF ev.kind = "failed" THEN {Reject(Stderr)}
  ELSE IF matchingFiles(dsk, tempId) = {} THEN {Reject(NotFoundMsg)}
  ELSE IF ~ev.title THEN {Reject(TitleMsg)}
  ELSE {Resolve(filenameOf(ev, f), f) : f \in matchingFiles(dsk, tempId)}

\* a handler that does not look whether the file is there
downloadFileResultsMissingOk(ev, tempId, dsk) ==
  IF ev.kind = "spawnError" THEN {Reject(SpawnMsg)}
  ELSE IF ev.kind = "failed" THEN {Reject(Stderr)}
  ELSE IF matchingFiles(dsk, tempId) = {}
    THEN {Resolve(<<"download", "mp3">>, fileOf(tempId, "mp3"))}
  ELSE {Resolve(filenameOf(ev, f), f) : f \in matchingFiles(dsk, tempId)}

\* How the promise of downloadFile settles (lines 124-156), given the
\* directory as the 'close' handler reads it.  files[0] is whichever
\* matching entry readdirSync lists first.
downloadFileResults(ev, tempId, dsk) ==
  IF ev.kind = "spawnError" THEN {Reject(SpawnMsg)}
  ELSE IF ev.kind = "failed" THEN {Reject(Stderr)}
  ELSE IF matchingFiles(dsk, tempId) = {} THEN {Reject(NotFoundMsg)}
  ELSE {Resolve(filenameOf(ev, f), f) : f \in matchingFiles(dsk, tempId)}

\* --------------------------------------------------------- processQueue
\* a loop head that calls downloadFile without marking the item
markDownloadingSkipped(task) == task

\* item.status = 'downloading' (line 51)
markDownloading(task) ==
  [task EXCEPT !.items[task.currentIndex + 1].status = "downloading"]

\* a success branch that forgets the status
recordSuccessKeepStatus(task, res) ==
  [task EXCEPT !.items[task.currentIndex + 1] =
     [@ EXCEPT !.filename = res.filename, !.filepath = res.filepath]]

\* lines 55-57
recordSuccess(task, res) ==
  [task EXCEPT !.items[task.currentIndex + 1] =
     [@ EXCEPT !.status = "completed", !.filename = res.filename,
               !.filepath = res.filepath]]

\* a loop that gives the task up at the first failure
recordErrorAbort(task, msg) ==
  [task EXCEPT !.items[task.currentIndex + 1] =
                 [@ EXCEPT !.status = "error", !.error = msg],
               !.currentIndex = Len(task.items) - 1]

\* the catch block, lines 68-69
recordError(task, msg) ==
  [task EXCEPT !.items[task.currentIndex + 1] =
     [@ EXCEPT !.status = "error", !.error = msg]]

\* a cursor that skips an item
advanceTwice(task) == [task EXCEPT !.currentIndex = @ + 2]

\* task.currentIndex++ (line 73)
advance(task) == [task EXCEPT !.currentIndex = @ + 1]

\* an off-by-one loop condition
hasNextButLast(task) == task.currentIndex + 1 < Len(task.items)

\* the loop condition (line 49)
hasNext(task) == task.currentIndex < Len(task.items)

\* a loop that returns without marking the task
finishSilently(task) == task

\* a loop that reports a task with a failed item as failed
finishFailed(task) ==
  [task EXCEPT !.status =
     IF \E i \in 1..Len(task.items) : task.items[i].status = "error"
     THEN "failed" ELSE "completed"]

\* line 76
finish(task) == [task EXCEPT !.status = "completed"]

\* the top of the while loop up to the await, or the exit of the loop
loopHead(task) == IF hasNext(task) THEN markDownloading(task) ELSE finish(task)

\* the descriptor pushed at lines 60-64; `owner` is a history tag telling
\* which task record's loop built the object
descriptor(t, task, res) ==
  [owner |-> t, index |-> task.currentIndex,
   filename |-> res.filename, filepath |-> res.filepath]

\* the try/catch body of one iteration after the await (lines 54-71):
\* completedFiles.get(taskId) is undefined once the id was deleted, the
\* push throws a TypeError and the catch block runs on the same item
settle(task, res, cf) ==
  IF ~res.ok THEN recordError(task, res.error)
  ELSE IF Has(cf, task.id) THEN recordSuccess(task, res)
  ELSE recordError(recordSuccess(task, res), TypeErrorMsg)

\* the values the iteration assigns to item.status after the await, in the
\* order of the assignments: line 55 on the way to the push, line 68 in the
\* catch block
statusWrites(task, res, cf) ==
  IF ~res.ok THEN <<"error">>
  ELSE IF Has(cf, task.id) THEN <<"completed">>
  ELSE <<"completed", "error">>

\* completedFiles after the iteration
pushCompleted(cf, t, task, res) ==
  IF res.ok /\ Has(cf, task.id)
  THEN [cf EXCEPT ![task.id] = Append(@, descriptor(t, task, res))]
  ELSE cf

\* ------------------------------------------------- the tool's arguments
\* s.indexOf('--', i), 1-based; 0 when there is no occurrence
RECURSIVE indexOfSep(_, _)
indexOfSep(s, i) ==
  IF i + 1 > Len(s) THEN 0
  ELSE IF s[i] = "-" /\ s[i + 1] = "-" THEN i
  ELSE indexOfSep(s, i + 1)

\* format.includes('--') (line 93)
includesSep(s) == indexOfSep(s, 1) # 0

\* format.split('--') (line 94): cut at each occurrence, found left to right
RECURSIVE split(_)
split(s) ==
  IF ~includesSep(s) THEN <<s>>
  ELSE <<SubSeq(s, 1, indexOfSep(s, 1) - 1)>>
         \o split(SubSeq(s, indexOfSep(s, 1) + 2, Len(s)))

\* actualFormat (lines 90-96)
actualFormat(format) == IF includesSep(format) THEN split(format)[1] ELSE format

\* audioFormat (lines 91-97): null, or the string parts[1]
audioFormat(format) == IF includesSep(format) THEN <<split(format)[2]>> ELSE Null

\* `if (audioFormat)` (line 108): neither null nor the empty string
hasTarget(af) == af # Null /\ af[1] # <<>>

\* the options yt-dlp is started with (lines 100-113): -f, -o (the
\* temporary path, to which '.%(ext)s' is appended), --no-playlist,
\* --no-warnings, and with a target -x, --audio-format and --audio-quality
\* 0; last the URL.  `cookies` is what precedes -f: nothing
ytdlpArgs(url, format, tempId) ==
  [cookies |-> <<>>,
   f |-> actualFormat(format),
   o |-> tempId,
   noPlaylist |-> TRUE,
   noWarnings |-> TRUE,
   x |-> hasTarget(audioFormat(format)),
   audioFormat |-> IF hasTarget(audioFormat(format)) THEN audioFormat(format) ELSE Null,
   url |-> url]

\* The position of a processQueue call: suspended in the await while the
\* tool runs ("await"), inside the 'close' handler's execSync while the
\* title lookup runs ("title", with the exit event and the value the promise
\* is about to resolve with), or returned ("done").
\* `args` is what the running tool was started with.
Awaiting(tempId, args) ==
  [pc |-> "await", tempId |-> tempId, args |-> args, ev |-> Null, res |-> Null]
InTitle(tempId, ev, res) ==
  [pc |-> "title", tempId |-> tempId, args |-> Null, ev |-> ev, res |-> res]
Returned == [pc |-> "done", tempId |-> Null, args |-> Null, ev |-> Null, res |-> Null]

\* the state of the call after the loop head ran: suspended in the await
\* of a fresh downloadFile call (lines 85-87, 117), or returned
suspend(task, ms, r) ==
  IF hasNext(task)
  THEN Awaiting(newId(ms, r),
                ytdlpArgs(ItemAt(task, task.currentIndex).url,
                          ItemAt(task, task.currentIndex).format, newId(ms, r)))
  ELSE Returned

\* the downloadFile call of the loop head, recorded
logCall(log, task) ==
  IF hasNext(task)
  THEN Append(log, <<ItemAt(task, task.currentIndex).url,
                     ItemAt(task, task.currentIndex).format>>)
  ELSE log

\* the URLs submitted so far
RECURSIVE Submitted(_)
Submitted(h) ==
  IF h = <<>> THEN 0 ELSE Len(Head(h).items) + Submitted(Tail(h))

\* --------------------------------------------------------- the event loop
\* Node runs one handler at a time, to completion.  execSync (line 140)
\* returns only when its child process has exited: while a 'close' handler
\* is inside it, the one thread is held and no other handler, timer or
\* request of the server runs.
Idle == \A t \in DOMAIN proc : proc[t].pc # "title"

\* ------------------------------------------------------------- createTask
\* createTask(urls, format), lines 18-40, called by POST /queue/create
\* after its validation (api.js 244-253).  processQueue(taskId) runs inside
\* the call up to its first await: the first item is already 'downloading'
\* and its tool spawned when createTask returns.
createTask(urls, format, r, r2) ==
  LET taskId == newId(now, r)
      t == Len(heap) + 1
      task == newTask(taskId, urls, format)
  IN /\ Idle
     /\ Submitted(heap) + Len(urls) <= MaxItems
     /\ heap' = Append(heap, loopHead(task))
     /\ downloadQueue' = MapSet(downloadQueue, taskId, t)
     /\ completedFiles' = MapSet(completedFiles, taskId, <<>>)
     /\ proc' = Append(proc, suspend(task, now, r2))
     /\ fetchLog' = Append(fetchLog, logCall(<<>>, task))
     /\ submitted' = Append(submitted, [urls |-> urls, format |-> format])
     /\ UNCHANGED <<now, disk, drained, resp>>

\* req.body.urls as POST /queue/create reads it: absent (or another falsy
\* value), a value that is not an array, or an array of URLs
Bodies ==
  {[kind |-> k, urls |-> <<>>] : k \in {"missing", "object", "array"}}
    \cup {[kind |-> "array", urls |-> urls] : urls \in UrlLists}

\* a validation that lets the empty array through
validUrlsAllowEmpty(body) == body.kind = "array"

\* the negation of `!urls || !Array.isArray(urls) || urls.length === 0`
\* (api.js 247)
validUrls(body) == body.kind = "array" /\ Len(body.urls) # 0

ValidBodies == {body \in Bodies : validUrls(body)}

BadRequest == [status |-> <<400>>, taskId |-> Null, total |-> Null]
Created(taskId, total) == [status |-> <<200>>, taskId |-> taskId, total |-> <<total>>]

\* POST /queue/create (api.js 244-253)
queueCreate(body, format, r, r2) ==
  IF ~validUrls(body)
  THEN /\ Idle
       /\ reply' = BadRequest
       /\ UNCHANGED <<now, heap, downloadQueue, completedFiles, disk, proc,
                      fetchLog, submitted, drained, resp>>
  ELSE /\ createTask(body.urls, format, r, r2)
       /\ reply' = Created(newId(now, r), Len(body.urls))

\* ------------------------------------------------- the loop's continuation
\* The tool run of task record t ends: the 'close' / 'error' handler
\* settles the promise and the loop runs on to its next await or to its
\* end (lines 54-77), all in one turn of the event loop.
FetchExitWith(t, ev, r, res) ==
  LET task == heap[t]
      after == advance(settle(task, res, completedFiles))
  IN /\ heap' = [heap EXCEPT ![t] = loopHead(after)]
     /\ completedFiles' = pushCompleted(completedFiles, t, task, res)
     /\ disk' = toolWrites(disk, proc[t].tempId, ev)
     /\ proc' = [proc EXCEPT ![t] = suspend(after, now, r)]
     /\ fetchLog' = [fetchLog EXCEPT ![t] = logCall(@, after)]
     /\ UNCHANGED <<now, downloadQueue, submitted, drained, resp, reply>>

\* the ways the promise the loop of t awaits can settle on event ev
settlements(t, ev) ==
  downloadFileResults(ev, proc[t].tempId, toolWrites(disk, proc[t].tempId, ev))

\* The 'close' handler has found the output file and calls execSync for
\* the title (lines 137-140): the tool's files are on disk, the promise is
\* not settled yet.
enterTitle(t, ev, res) ==
  /\ proc' = [proc EXCEPT ![t] = InTitle(proc[t].tempId, ev, res)]
  /\ disk' = toolWrites(disk, proc[t].tempId, ev)
  /\ UNCHANGED <<now, heap, downloadQueue, completedFiles, fetchLog,
                 submitted, drained, resp, reply>>

\* 'close' or 'error' is delivered for the tool run of task record t.  A
\* rejection (lines 125-134, 156) lets the loop run on in the same turn; on
\* the path to resolve, the handler first waits in execSync.
FetchExit(t, evs) ==
  /\ Idle
  /\ t \in Objs
  /\ proc[t].pc = "await"
  /\ \E ev \in evs, r \in RandomStrings :
       \E res \in settlements(t, ev) :
         IF res.ok THEN enterTitle(t, ev, res) ELSE FetchExitWith(t, ev, r, res)

\* The title lookup ends (execSync returns or throws, lines 140-146): the
\* handler resolves the promise and the loop runs on to its next await or
\* to its end.
TitleExit(t) ==
  /\ t \in Objs
  /\ proc[t].pc = "title"
  /\ \E r \in RandomStrings : FetchExitWith(t, proc[t].ev, r, proc[t].res)

\* ----------------------------------------------------- lifecycle reads
\* a report whose `current` counts the completed items
getTaskStatusCountsCompleted(taskId) ==
  IF ~Has(downloadQueue, taskId) THEN Null
  ELSE LET task == heap[downloadQueue[taskId]]
           done == Cardinality({i \in 1..Len(task.items) :
                                  task.items[i].status = "completed"})
       IN <<[status |-> task.status,
             total |-> Len(task.items),
             completed |-> done,
             current |-> done,
             items |-> [i \in 1..Len(task.items) |->
                          [status |-> task.items[i].status,
                           filename |-> task.items[i].filename,
                           error |-> task.items[i].error]]]>>

\* a report whose `completed` counts every item the loop is done with
getTaskStatusCountsFinished(taskId) ==
  IF ~Has(downloadQueue, taskId) THEN Null
  ELSE LET task == heap[downloadQueue[taskId]]
       IN <<[status |-> task.status,
             total |-> Len(task.items),
             completed |-> Cardinality({i \in 1..Len(task.items) :
                             task.items[i].status \in {"completed", "error"}}),
             current |-> task.currentIndex,
             items |-> [i \in 1..Len(task.items) |->
                          [status |-> task.items[i].status,
                           filename |-> task.items[i].filename,
                           error |-> task.items[i].error]]]>>

\* getTaskStatus(taskId), lines 163-178
getTaskStatus(taskId) ==
  IF ~Has(downloadQueue, taskId) THEN Null
  ELSE LET task == heap[downloadQueue[taskId]]
       IN <<[status |-> task.status,
             total |-> Len(task.items),
             completed |-> Cardinality({i \in 1..Len(task.items) :
                                          task.items[i].status = "completed"}),
             current |-> task.currentIndex,
             items |-> [i \in 1..Len(task.items) |->
                          [status |-> task.items[i].status,
                           filename |-> task.items[i].filename,
                           error |-> task.items[i].error]]]>>

\* a route that answers 200 with whatever getTaskStatus returned
queueStatusReplyNoCheck(taskId) == <<200>> \o getTaskStatus(taskId)

\* what GET /queue/status/:taskId answers (api.js 261-267)
queueStatusReply(taskId) ==
  IF getTaskStatus(taskId) = Null THEN <<404>>
  ELSE <<200, getTaskStatus(taskId)[1]>>

\* GET /queue/status/:taskId (api.js 259-268): the handler runs when the
\* event loop is free, answers queueStatusReply(taskId) and changes nothing
queueStatus(taskId) ==
  /\ Idle
  /\ UNCHANGED server

\* What GET /queue/download passes as index: parseInt of the path segment,
\* an integer or NaN
\* (<<n>> for the number n, <<>> for NaN)
NaN == <<>>
Indices == {<<n>> : n \in -1..MaxUrls} \cup {NaN}

\* task.items[index]: an element, or undefined for anything that is not
\* the index of an element
hasElement(items, index) == index # NaN /\ index[1] \in 0..(Len(items) - 1)

\* a handle for every item the loop has touched
getFileInfoNotPending(taskId, index) ==
  IF ~Has(downloadQueue, taskId) THEN Null
  ELSE LET task == heap[downloadQueue[taskId]]
       IN IF ~hasElement(task.items, index) THEN Null
          ELSE IF ItemAt(task, index[1]).status = "pending" THEN Null
          ELSE <<ItemAt(task, index[1]).filename, ItemAt(task, index[1]).filepath>>

\* getFileInfo(taskId, index), lines 193-204
getFileInfo(taskId, index) ==
  IF ~Has(downloadQueue, taskId) THEN Null
  ELSE LET task == heap[downloadQueue[taskId]]
       IN IF ~hasElement(task.items, index) THEN Null
          ELSE IF ItemAt(task, index[1]).status # "completed" THEN Null
          ELSE <<ItemAt(task, index[1]).filename, ItemAt(task, index[1]).filepath>>

\* a route that does not look whether the file is still there
queueDownloadReplyNoExists(taskId, index) ==
  IF getFileInfo(taskId, index) = Null THEN <<404>>
  ELSE <<200, getFileInfo(taskId, index)[1], getFileInfo(taskId, index)[2]>>

\* what GET /queue/download/:taskId/:index answers (api.js 293-317): 404
\* when getFileInfo returns null or fs.existsSync(filepath) is false, else
\* the file piped from disk under the item's filename
queueDownloadReply(taskId, index) ==
  IF getFileInfo(taskId, index) = Null THEN <<404>>
  ELSE IF getFileInfo(taskId, index)[2] \notin disk THEN <<404>>
  ELSE <<200, getFileInfo(taskId, index)[1], getFileInfo(taskId, index)[2]>>

\* GET /queue/download/:taskId/:index: the handler reads the record and the
\* directory, answers queueDownloadReply(taskId, index) and changes nothing
queueDownload(taskId, index) ==
  /\ Idle
  /\ UNCHANGED server

\* ----------------------------------------------------------- drain
\* files.shift(): the element returned and the array left
shiftHead(files) == Head(files)

\* reading files[0] without removing it
peekRest(files) == files

shiftRest(files) == Tail(files)

\* a drain that also takes the file away from the item it notifies of
getNextCompletedFileConsuming(taskId) ==
  /\ Idle
  /\ IF ~Has(completedFiles, taskId) \/ completedFiles[taskId] = <<>>
     THEN UNCHANGED server
     ELSE LET file == shiftHead(completedFiles[taskId])
              t == downloadQueue[taskId]
          IN /\ completedFiles' =
                  [completedFiles EXCEPT ![taskId] = shiftRest(@)]
             /\ drained' = [drained EXCEPT ![taskId] = Append(@, file)]
             /\ heap' = [heap EXCEPT ![t].items[file.index + 1].filepath = Null]
             /\ UNCHANGED <<now, downloadQueue, disk, proc, fetchLog,
                            submitted, resp, reply>>

\* what GET /queue/next/:taskId answers (api.js 274-287), from the arrays as
\* they are before the call
queueNextReply(taskId) ==
  IF ~Has(completedFiles, taskId) \/ completedFiles[taskId] = <<>>
  THEN [hasFile |-> FALSE, index |-> Null, filename |-> Null]
  ELSE [hasFile |-> TRUE,
        index |-> <<shiftHead(completedFiles[taskId]).index>>,
        filename |-> shiftHead(completedFiles[taskId]).filename]

\* getNextCompletedFile(taskId), lines 183-188, behind GET /queue/next
\* (api.js 274-287)
getNextCompletedFile(taskId) ==
  /\ Idle
  /\ IF ~Has(completedFiles, taskId) \/ completedFiles[taskId] = <<>>
     THEN UNCHANGED server
     ELSE LET file == shiftHead(completedFiles[taskId])
          IN /\ completedFiles' =
                  [completedFiles EXCEPT ![taskId] = shiftRest(@)]
             /\ drained' = [drained EXCEPT ![taskId] = Append(@, file)]
             /\ UNCHANGED <<now, heap, downloadQueue, disk, proc, fetchLog,
                            submitted, resp, reply>>

\* ----------------------------------------------------------- cleanup
\* the paths of the first n items
pathsBefore(items, n) == {items[j].filepath : j \in 1..n}

\* the items whose file the forEach of lines 213-217 unlinks: filepath set
\* and still on disk when the item's turn comes
unlinked(items, dsk) ==
  {i \in 1..Len(items) :
     /\ items[i].filepath # Null
     /\ items[i].filepath \in dsk \ pathsBefore(items, i - 1)}

\* a cleanup that also stops the loop of the task it removes
cleanupTaskCancelling(taskId, failAt) ==
  LET items == IF Has(downloadQueue, taskId)
               THEN heap[downloadQueue[taskId]].items ELSE <<>>
  IN /\ Idle
     /\ failAt \in {0} \cup unlinked(items, disk)
     /\ IF failAt = 0
        THEN /\ disk' = disk \ pathsBefore(items, Len(items))
             /\ downloadQueue' = MapDelete(downloadQueue, taskId)
             /\ completedFiles' = MapDelete(completedFiles, taskId)
             /\ resp' = [id |-> taskId, out |-> <<200>>]
        ELSE /\ disk' = disk \ pathsBefore(items, failAt - 1)
             /\ UNCHANGED <<downloadQueue, completedFiles>>
             /\ resp' = [id |-> taskId, out |-> <<500>>]
     /\ proc' = [t \in DOMAIN proc |->
                   IF heap[t].id = taskId THEN Returned ELSE proc[t]]
     /\ UNCHANGED <<now, heap, fetchLog, submitted, drained, reply>>

\* cleanupTask(taskId), lines 209-221, behind DELETE /queue/:taskId
\* (api.js 323-327).  failAt is the item whose fs.unlinkSync throws (0: none
\* does): the exception leaves forEach and cleanupTask, and the handler, so
\* that Express answers 500.
cleanupTask(taskId, failAt) ==
  LET items == IF Has(downloadQueue, taskId)
               THEN heap[downloadQueue[taskId]].items ELSE <<>>
  IN /\ Idle
     /\ failAt \in {0} \cup unlinked(items, disk)
     /\ IF failAt = 0
        THEN /\ disk' = disk \ pathsBefore(items, Len(items))
             /\ downloadQueue' = MapDelete(downloadQueue, taskId)
             /\ completedFiles' = MapDelete(completedFiles, taskId)
             /\ resp' = [id |-> taskId, out |-> <<200>>]
        ELSE /\ disk' = disk \ pathsBefore(items, failAt - 1)
             /\ UNCHANGED <<downloadQueue, completedFiles>>
             /\ resp' = [id |-> taskId, out |-> <<500>>]
     /\ UNCHANGED <<now, heap, proc, fetchLog, submitted, drained, reply>>

\* ------------------------------------------------------------- the clock
Tick ==
  /\ now < MaxTime
  /\ now' = now + 1
  /\ UNCHANGED <<heap, downloadQueue, completedFiles, disk, proc, fetchLog,
                 submitted, drained, resp, reply, client, proxy>>

\* ------------------------------------------------------- /proxy-download
\* config.js: COOKIES_FILE and COOKIES_FROM_BROWSER, each set or not
Configs ==
  {[COOKIES_FILE |-> f, COOKIES_FROM_BROWSER |-> b] :
     f \in {Null, <<"./cookies.txt">>}, b \in {Null, <<"chrome">>}}

\* the file as shipped: the browser set, the file commented out
config == [COOKIES_FILE |-> Null, COOKIES_FROM_BROWSER |-> <<"chrome">>]

\* getCookiesArgs() (api.js 24-32)
getCookiesArgs(cfg) ==
  IF cfg.COOKIES_FILE # Null THEN <<"--cookies", cfg.COOKIES_FILE[1]>>
  ELSE IF cfg.COOKIES_FROM_BROWSER # Null
    THEN <<"--cookies-from-browser", cfg.COOKIES_FROM_BROWSER[1]>>
  ELSE <<>>

\* the options /proxy-download starts yt-dlp with (api.js 128-154)
proxyArgs(cfg, url, format, tempId) ==
  [cookies |-> getCookiesArgs(cfg),
   f |-> actualFormat(format),
   o |-> tempId,
   noPlaylist |-> TRUE,
   noWarnings |-> TRUE,
   x |-> hasTarget(audioFormat(format)),
   audioFormat |-> IF hasTarget(audioFormat(format)) THEN audioFormat(format) ELSE Null,
   url |-> url]

\* One request: not made ("none"), its tool running ("await"), the tool's
\* 'error' event handled and its 'close' still to come ("errored"), the
\* file being piped ("streaming"), or over ("done").  `responses` is the
\* history of the answers the handlers sent with res.json or pipe; `raised`
\* tells that one was sent after another, which makes Express throw
\* ERR_HTTP_HEADERS_SENT in the handler.
NoRequest(cfg) ==
  [pc |-> "none", config |-> cfg, url |-> Null, format |-> Null,
   tempId |-> Null, args |-> Null, ev |-> Null, responses |-> <<>>,
   raised |-> FALSE]

\* res.status(...).json(...) or readStream.pipe(res)
respond(p, answer) ==
  [p EXCEPT !.responses = Append(@, answer),
            !.raised = @ \/ p.responses # <<>>]

\* req.query: url absent or a URL, format absent or a format string
ProxyUrls == {Null, <<"A">>, <<"B">>}
ProxyFormats == {Null} \cup {<<f>> : f \in FormatStrings}

\* the handler up to spawn (api.js 110-158): 400 without url, 'best' for
\* a missing format
proxyDownload(url, format, r) ==
  LET fmt == IF format = Null THEN <<"best">> ELSE format[1]
  IN /\ Idle
     /\ proxy.pc = "none"
     /\ proxy' =
          IF url = Null THEN respond([proxy EXCEPT !.pc = "done"], <<400>>)
          ELSE [proxy EXCEPT !.pc = "await", !.url = url, !.format = <<fmt>>,
                             !.tempId = newId(now, r),
                             !.args = proxyArgs(proxy.config, url[1], fmt,
                                                newId(now, r))]
     /\ UNCHANGED <<server, client>>

ProxySpawnMsg == <<"Failed to start yt-dlp: spawn yt-dlp ENOENT">>
ProxyFailedMsg == <<"Download failed: ">>
ProxyNotFoundMsg == <<"Downloaded file not found">>

\* ytdlp.on('error') (api.js 226-229): the tool could not be started
proxyToolError ==
  /\ Idle
  /\ proxy.pc = "await"
  /\ proxy' = respond([proxy EXCEPT !.pc = "errored"], <<500, ProxySpawnMsg>>)
  /\ UNCHANGED <<server, client>>

\* what the 'close' handler answers (api.js 172-216), given the directory
\* as it reads it
proxyAnswers(ev, tempId, dsk) ==
  IF ev.kind \in {"failed", "spawnError"} THEN {<<500, ProxyFailedMsg>>}
  ELSE IF matchingFiles(dsk, tempId) = {} THEN {<<500, ProxyNotFoundMsg>>}
  ELSE {<<200, filenameOf(ev, f), f>> : f \in matchingFiles(dsk, tempId)}

\* ytdlp.on('close') (api.js 172-224).  After a failed spawn Node emits
\* 'error' and then 'close' with a negative code, so the handler runs in
\* "errored" too, on the branch `code !== 0`.
proxyToolClose(ev) ==
  /\ Idle
  /\ \/ proxy.pc = "await" /\ ev.kind \in {"ok", "missing", "failed"}
     \/ proxy.pc = "errored" /\ ev.kind = "spawnError"
  /\ \E answer \in proxyAnswers(ev, proxy.tempId,
                                 toolWrites(disk, proxy.tempId, ev)) :
       proxy' = respond([proxy EXCEPT
                           !.pc = IF answer[1] = 200 THEN "streaming" ELSE "done",
                           !.ev = ev],
                        answer)
  /\ disk' = toolWrites(disk, proxy.tempId, ev)
  /\ UNCHANGED <<now, heap, downloadQueue, completedFiles, proc, fetchLog,
                 submitted, drained, resp, reply, client>>

\* readStream.on('close') (api.js 219-223): the temporary file is unlinked
proxyStreamClose ==
  /\ proxy.pc = "streaming"
  /\ proxy' = [proxy EXCEPT !.pc = "done"]
  /\ disk' = disk \ {proxy.responses[Len(proxy.responses)][3]}
  /\ UNCHANGED <<now, heap, downloadQueue, completedFiles, proc, fetchLog,
                 submitted, drained, resp, reply, client>>

\* ------------------------------------------------------------- the page
\* The batch handler of the page (the click handler of the 'download
\* selected as MP3' button): not clicked yet ("idle"), between two runs of
\* its poll timer ("polling"), inside a run after the status was read
\* ("gotStatus"), timer cleared with the DELETE timer armed ("stopped"), or
\* DELETE sent ("deleted").  `clicks` is the history of the file retrievals
\* triggered, by item index.
NoClick ==
  [pc |-> "idle", taskId |-> Null, total |-> 0, status |-> Null,
   downloadedCount |-> 0, clicks |-> <<>>]

\* The click: the selected URLs go to POST /queue/create with the format
\* 'bestaudio--mp3'; taskId and total are read from the answer and the poll
\* timer is started.  The handler returns at once when nothing is selected.
clickDownloadMp3(urls, r, r2) ==
  /\ client.pc = "idle"
  /\ UNCHANGED proxy
  /\ Len(urls) # 0
  /\ queueCreate([kind |-> "array", urls |-> urls],
                 <<"bestaudio", "-", "-", "mp3">>, r, r2)
  /\ client' = [pc |-> "polling", taskId |-> reply'.taskId,
                total |-> reply'.total[1], status |-> Null,
                downloadedCount |-> 0, clicks |-> <<>>]

\* status.status of the body GET /queue/status/:taskId answers with: the
\* task status, or undefined for the 404 body {error}
statusField(taskId) ==
  IF queueStatusReply(taskId)[1] = 200
  THEN <<queueStatusReply(taskId)[2].status>> ELSE Null

\* a run of the poll timer, up to the answer of the status request
pollStatus ==
  /\ client.pc = "polling"
  /\ UNCHANGED proxy
  /\ queueStatus(client.taskId)
  /\ client' = [client EXCEPT !.pc = "gotStatus",
                              !.status = statusField(client.taskId)]

\* `status.status === 'completed' && downloadedCount >= total`
allDone(status, count, total) == status = <<"completed">> /\ count >= total

\* the rest of the run: GET /queue/next/:taskId; for a notification one
\* click on a link to GET /queue/download/:taskId/:index and
\* downloadedCount++; then the check that clears the timer and arms the
\* DELETE timer
pollNext ==
  LET id == client.taskId
      hasFile == Has(completedFiles, id) /\ completedFiles[id] # <<>>
      count == IF hasFile THEN client.downloadedCount + 1
               ELSE client.downloadedCount
  IN /\ client.pc = "gotStatus"
     /\ UNCHANGED proxy
     /\ getNextCompletedFile(id)
     /\ client' = [client EXCEPT
          !.downloadedCount = count,
          !.clicks = IF hasFile THEN Append(@, shiftHead(completedFiles[id]).index)
                     ELSE @,
          !.pc = IF allDone(client.status, count, client.total)
                 THEN "stopped" ELSE "polling"]

\* the DELETE timer fires: DELETE /queue/:taskId, its answer ignored
sendDelete ==
  /\ client.pc = "stopped"
  /\ UNCHANGED proxy
  /\ \E failAt \in 0..MaxUrls : cleanupTask(client.taskId, failAt)
  /\ client' = [client EXCEPT !.pc = "deleted"]

\* ---------------------------------------------------------- specification
ServerInit ==
  /\ now = 0
  /\ heap = <<>>
  /\ downloadQueue = <<>>
  /\ completedFiles = <<>>
  /\ disk = {}
  /\ proc = <<>>
  /\ fetchLog = <<>>
  /\ submitted = <<>>
  /\ drained = [id \in Ids \cup {UnknownId} |-> <<>>]
  /\ resp = [id |-> Null, out |-> Null]
  /\ reply = [status |-> Null, taskId |-> Null, total |-> Null]
  /\ client = NoClick

\* the server started with the configuration the repository ships
Init == ServerInit /\ proxy = NoRequest(config)

\* POST /queue/create with a body that passes the validation
Create ==
  /\ \E body \in ValidBodies, format \in Formats, r \in RandomStrings,
        r2 \in RandomStrings : queueCreate(body, format, r, r2)
  /\ UNCHANGED <<client, proxy>>
\* POST /queue/create with any body
CreateAny ==
  /\ \E body \in Bodies, format \in Formats, r \in RandomStrings,
        r2 \in RandomStrings : queueCreate(body, format, r, r2)
  /\ UNCHANGED <<client, proxy>>
Exit == (\E t \in 1..MaxTasks : FetchExit(t, Events)) /\ UNCHANGED <<client, proxy>>
TitleDone == (\E t \in 1..MaxTasks : TitleExit(t)) /\ UNCHANGED <<client, proxy>>
\* the ids a client sends: one it was given by createTask, or one it was not
Known == {heap[t].id : t \in Objs} \cup {UnknownId}

Status == (\E taskId \in Known : queueStatus(taskId)) /\ UNCHANGED <<client, proxy>>
Drain == (\E taskId \in Known : getNextCompletedFile(taskId)) /\ UNCHANGED <<client, proxy>>
Cleanup ==
  /\ \E taskId \in Known, failAt \in 0..MaxUrls : cleanupTask(taskId, failAt)
  /\ UNCHANGED <<client, proxy>>

Next == Create \/ Exit \/ TitleDone \/ Status \/ Drain \/ Cleanup \/ Tick

Spec == Init /\ [][Next]_vars

\* Every tool run ends: each spawned process eventually emits 'close' or
\* 'error', and the event loop then runs the handler; each title lookup
\* ends and execSync returns.
\* the same server, with clients that also send malformed creation requests
NextApi == CreateAny \/ Exit \/ TitleDone \/ Status \/ Drain \/ Cleanup \/ Tick

ApiSpec == Init /\ [][NextApi]_vars

\* One creation request per run, with any format string, and its loop.
CreateOne ==
  /\ \E body \in ValidBodies, format \in FormatStrings, r \in RandomStrings,
        r2 \in RandomStrings : heap = <<>> /\ queueCreate(body, format, r, r2)
  /\ UNCHANGED <<client, proxy>>

NextFormat == CreateOne \/ Exit \/ TitleDone

FormatSpec == Init /\ [][NextFormat]_vars

\* The server within one millisecond, with tool runs in which the title
\* lookup fails and the file written has either extension.
ExitAny == (\E t \in 1..MaxTasks : FetchExit(t, AllEvents)) /\ UNCHANGED <<client, proxy>>

NextTitle == Create \/ ExitAny \/ TitleDone \/ Drain \/ Cleanup

TitleSpec == Init /\ [][NextTitle]_vars

LiveSpec ==
  Spec /\ \A t \in 1..MaxTasks :
            /\ WF_vars(FetchExit(t, Events) /\ UNCHANGED <<client, proxy>>)
            /\ WF_vars(TitleExit(t) /\ UNCHANGED <<client, proxy>>)

\* The server within one millisecond, with clients that also request the
\* files.
Download ==
  /\ \E taskId \in Known, index \in Indices : queueDownload(taskId, index)
  /\ UNCHANGED <<client, proxy>>

NextRoutes == Create \/ Exit \/ TitleDone \/ Status \/ Drain \/ Download \/ Cleanup

RoutesSpec == Init /\ [][NextRoutes]_vars

\* The server as the clock advances, with clients that request files and
\* delete tasks but leave the notifications alone.
NextFiles == Create \/ Exit \/ TitleDone \/ Download \/ Cleanup \/ Tick

FilesSpec == Init /\ [][NextFiles]_vars

\* One /proxy-download request to a server started with any configuration.
ProxyInit == ServerInit /\ proxy \in {NoRequest(cfg) : cfg \in Configs}

ProxyRequest ==
  \E url \in ProxyUrls, format \in ProxyFormats, r \in RandomStrings :
    proxyDownload(url, format, r)

ProxyClose == \E ev \in AllEvents : proxyToolClose(ev)

NextProxy == ProxyRequest \/ proxyToolError \/ ProxyClose \/ proxyStreamClose

ProxySpec == ProxyInit /\ [][NextProxy]_vars

\* One page and the server: the page creates a task, polls it and deletes
\* it, while the task's loop runs.
Click == \E urls \in UrlLists, r \in RandomStrings, r2 \in RandomStrings :
           clickDownloadMp3(urls, r, r2)

NextClient == Click \/ Exit \/ TitleDone \/ pollStatus \/ pollNext \/ sendDelete

ClientSpec == Init /\ [][NextClient]_vars

\* Every tool run and title lookup ends, the poll timer keeps firing until
\* it is cleared, every request is answered and the DELETE timer fires.
ClientLiveSpec ==
  /\ ClientSpec
  /\ WF_vars(Exit) /\ WF_vars(TitleDone)
  /\ WF_vars(pollStatus) /\ WF_vars(pollNext) /\ WF_vars(sendDelete)

\* ================================================================ claims

\* task record t is the one stored under its id
Stored(t) ==
  /\ t \in Objs
  /\ Has(downloadQueue, heap[t].id)
  /\ downloadQueue[heap[t].id] = t

Finished(item) == item.status \in {"completed", "error"}

\* ------------------------------------------------------------------- C1
\* getTaskStatus reports status 'completed' with current equal to the
\* number of URLs the task was created with
ReportsCompleted(t) ==
  /\ getTaskStatus(heap[t].id) # Null
  /\ getTaskStatus(heap[t].id)[1].status = "completed"
  /\ getTaskStatus(heap[t].id)[1].current = Len(submitted[t].urls)

\* C1: every task that is in the store is eventually reported 'completed'
\* with current == N, unless it leaves the store first, whatever its items'
\* outcomes, provided every tool run ends (LiveSpec).
C1_EventuallyCompleted ==
  \A t \in 1..MaxTasks : Stored(t) ~> (~Stored(t) \/ ReportsCompleted(t))

\* a task of two or more items is reported completed with both a failed
\* and a succeeded item
C1_Witness ==
  \E t \in Objs :
    /\ Stored(t) /\ ReportsCompleted(t)
    /\ \E i, j \in 1..Len(heap[t].items) :
         heap[t].items[i].status = "error" /\ heap[t].items[j].status = "completed"

\* ------------------------------------------------------------------- C2
\* C2: the downloadFile calls of a task's loop are, in order, one per URL
\* of the task with the task's format; a call for an item is made only
\* when every earlier item is 'completed' or 'error'; a loop that has
\* returned has made exactly N calls.
C2_CallsInInputOrder ==
  \A t \in Objs :
    /\ Len(fetchLog[t]) <= Len(submitted[t].urls)
    /\ \A k \in 1..Len(fetchLog[t]) :
         fetchLog[t][k] = <<submitted[t].urls[k], submitted[t].format>>
    /\ \A k \in 1..(Len(fetchLog[t]) - 1) : Finished(heap[t].items[k])
    /\ proc[t].pc = "done" => Len(fetchLog[t]) = Len(submitted[t].urls)

\* a loop has returned after calls for "A" and then "B"
C2_Witness ==
  \E t \in Objs :
    /\ proc[t].pc = "done"
    /\ Len(fetchLog[t]) >= 2
    /\ fetchLog[t][1][1] # fetchLog[t][2][1]

\* ------------------------------------------------------------------- C3
\* the step in which the fetch awaited by the loop of t fails
FailedFetch(t) ==
  /\ t \in Objs
  /\ proc[t].pc = "await"
  /\ \E ev \in Events, r \in RandomStrings :
       \E res \in settlements(t, ev) :
         ~res.ok /\ FetchExitWith(t, ev, r, res)

\* what the step leaves behind when item i (0-based) of n was being fetched
AfterFailure(t, i, n) ==
  /\ heap'[t].items[i + 1].status = "error"
  /\ heap'[t].items[i + 1].error # Null
  /\ heap'[t].currentIndex = i + 1
  /\ \A j \in 1..n : j \notin {i + 1, i + 2} => heap'[t].items[j] = heap[t].items[j]
  /\ IF i + 1 < n
     THEN /\ heap'[t].items[i + 2] =
               [heap[t].items[i + 2] EXCEPT !.status = "downloading"]
          /\ heap[t].items[i + 2].status = "pending"
          /\ fetchLog'[t] = Append(fetchLog[t],
               <<heap[t].items[i + 2].url, heap[t].items[i + 2].format>>)
          /\ proc'[t].pc = "await"
          /\ heap'[t].status = "processing"
     ELSE /\ fetchLog'[t] = fetchLog[t]
          /\ proc'[t].pc = "done"
          /\ heap'[t].status = "completed"
  /\ \A u \in Objs \ {t} : heap'[u] = heap[u]
  /\ completedFiles' = completedFiles
  /\ downloadQueue' = downloadQueue

\* C3: a failed fetch of item i marks that item, and no other, 'error' with
\* a message, moves the cursor on by exactly one and has the loop fetch item
\* i+1 next (or end the task as 'completed' when there is none); nothing is
\* fetched again and no other task is touched.
C3_FailureIsolated ==
  [][\A t \in 1..MaxTasks :
       FailedFetch(t) => AfterFailure(t, heap[t].currentIndex, Len(heap[t].items))]_vars

\* an item failed and the item after it was fetched and completed
C3_Witness ==
  \E t \in Objs : \E k \in 1..(Len(heap[t].items) - 1) :
    /\ heap[t].items[k].status = "error"
    /\ heap[t].items[k].filepath = Null
    /\ heap[t].items[k + 1].status = "completed"
    /\ Len(fetchLog[t]) > k

\* ------------------------------------------------------------------- C4
AllIds == Ids \cup {UnknownId}

\* what has been returned for an id, followed by what its array still holds
DrainOrder(id) ==
  drained[id] \o (IF Has(completedFiles, id) THEN completedFiles[id] ELSE <<>>)

\* C4: whatever the interleaving of drain calls with the loops, no
\* descriptor is returned twice (nor is a returned one still queued), and the
\* descriptors of a task's items are returned in the order the items
\* completed, which is increasing item index.
C4_DrainOnceInOrder ==
  \A id \in AllIds :
    \A i, j \in 1..Len(DrainOrder(id)) :
      i < j =>
        /\ DrainOrder(id)[i] # DrainOrder(id)[j]
        /\ DrainOrder(id)[i].owner = DrainOrder(id)[j].owner
             => DrainOrder(id)[i].index < DrainOrder(id)[j].index

\* two descriptors of one task have been returned
C4_Witness ==
  \E id \in AllIds :
    /\ Len(drained[id]) >= 2
    /\ drained[id][1].owner = drained[id][2].owner

\* ------------------------------------------------------------------- C5
\* C5: getFileInfo returns a handle exactly when the task is stored, the
\* index is that of an item and the item's status is 'completed', and the
\* handle is then the item's filename and filepath, both set; for every
\* other status, index (negative, too large, NaN) or id it returns null.
C5_FileInfoIffCompleted ==
  \A id \in AllIds, index \in Indices :
    LET known == Has(downloadQueue, id)
        inRange == known /\ index # NaN
                     /\ index[1] \in 0..(Len(heap[downloadQueue[id]].items) - 1)
        done == inRange
                  /\ heap[downloadQueue[id]].items[index[1] + 1].status = "completed"
    IN /\ getFileInfo(id, index) # Null <=> done
       /\ done =>
            /\ getFileInfo(id, index) =
                 <<heap[downloadQueue[id]].items[index[1] + 1].filename,
                   heap[downloadQueue[id]].items[index[1] + 1].filepath>>
            /\ getFileInfo(id, index)[1] # Null
            /\ getFileInfo(id, index)[2] # Null

\* one task with a handle for its completed item 0 and none for its failed
\* item 1
C5_Witness ==
  \E id \in AllIds :
    /\ getFileInfo(id, <<0>>) # Null
    /\ getFileInfo(id, <<1>>) = Null
    /\ Has(downloadQueue, id)
    /\ Len(heap[downloadQueue[id]].items) >= 2
    /\ heap[downloadQueue[id]].items[2].status = "error"

\* ------------------------------------------------------------------- C6
\* the files the loop of t recorded for its items
FilesOf(t) ==
  {heap[t].items[k].filepath : k \in 1..Len(heap[t].items)} \ {Null}

\* C6 (as claimed): once a task's id has been deleted by cleanupTask and
\* its loop has stopped, none of the files its fetches produced is on disk,
\* whenever the cleanup call was made.
C6_NoFileLeftAfterCleanup ==
  \A t \in Objs :
    (~Has(downloadQueue, heap[t].id) /\ proc[t].pc = "done")
      => FilesOf(t) \cap disk = {}

\* ------------------------------------------------------------------- C7
\* a DELETE /queue/:taskId step: cleanupTask(id) with some unlink outcome
CleanupStep(id) == \E failAt \in 0..MaxUrls : cleanupTask(id, failAt)

AllCompleted(id) ==
  /\ Has(downloadQueue, id)
  /\ \A k \in 1..Len(heap[downloadQueue[id]].items) :
       heap[downloadQueue[id]].items[k].status = "completed"

\* C7 (as claimed): after cleanupTask on a stored task whose items are all
\* completed, no item's file exists any more and getTaskStatus, getFileInfo
\* and getNextCompletedFile find nothing under the id.
C7_CleanupRemovesAll ==
  [][\A id \in AllIds :
       (CleanupStep(id) /\ AllCompleted(id)) =>
         /\ FilesOf(downloadQueue[id]) \cap disk' = {}
         /\ getTaskStatus(id)' = Null
         /\ \A index \in Indices : getFileInfo(id, index)' = Null
         /\ ~Has(completedFiles', id)]_vars

\* ------------------------------------------------------------------- C8
NeverCreated(id) == \A t \in Objs : heap[t].id # id

\* C8 (as claimed): a cleanupTask call on the id of the call before it, or
\* on an id no task was created with, raises nothing and leaves the store
\* as it was.
C8_CleanupIdempotent ==
  [][\A id \in AllIds :
       (CleanupStep(id) /\ (resp.id = id \/ NeverCreated(id))) =>
         /\ resp'.out = <<200>>
         /\ heap' = heap
         /\ downloadQueue' = downloadQueue
         /\ completedFiles' = completedFiles]_vars

\* ------------------------------------------------------------------- C9
\* C9 (as claimed): every cleanupTask call, also one in which an unlink
\* fails, returns normally, removes the task and its completed-file queue
\* from the store and has DELETE /queue/:taskId answer {success: true}.
C9_CleanupBestEffort ==
  [][\A id \in AllIds :
       CleanupStep(id) =>
         /\ resp'.out = <<200>>
         /\ ~Has(downloadQueue', id)
         /\ ~Has(completedFiles', id)]_vars

\* ------------------------------------------------------------------ C10
\* C10 (as claimed): no two createTask calls return the same id.
C10_IdsUnique ==
  \A t, u \in Objs : t # u => heap[t].id # heap[u].id

\* ------------------------------------------------------------------ C11
\* an external process started for an item of task record t is running: the
\* tool behind the await, or the title lookup behind execSync
InFlight(t) == t \in Objs /\ proc[t].pc \in {"await", "title"}

\* C11 (as claimed): while the tool run or the title lookup of a task's
\* item is in flight, a status query for any other task can be served, and
\* so can a task creation (as long as the run may submit more URLs).
C11_OthersNotBlocked ==
  \A t \in Objs :
    InFlight(t) =>
      /\ \A id \in AllIds \ {heap[t].id} : ENABLED queueStatus(id)
      /\ Submitted(heap) < MaxItems => ENABLED Create

\* ------------------------------------------------------------------ C12
Downloading(t) ==
  {i \in 1..Len(heap[t].items) : heap[t].items[i].status = "downloading"}

FinishedItems(t) ==
  {i \in 1..Len(heap[t].items) : Finished(heap[t].items[i])}

\* C12: of the items of one task record at most one is 'downloading', and
\* it is the item at the cursor, exactly while the loop waits for that
\* item's external process; of the downloadFile calls the loop has made at
\* most one has not ended yet.
C12_ItemsSerialized ==
  \A t \in Objs :
    /\ Cardinality(Downloading(t)) <= 1
    /\ Len(fetchLog[t]) - Cardinality(FinishedItems(t)) \in {0, 1}
    /\ InFlight(t) => Downloading(t) = {heap[t].currentIndex + 1}
    /\ ~InFlight(t) => Downloading(t) = {}

\* the second item of a task is being fetched after the first has ended
C12_Witness ==
  \E t \in Objs :
    /\ Len(heap[t].items) >= 2
    /\ Finished(heap[t].items[1])
    /\ heap[t].items[2].status = "downloading"
    /\ proc[t].pc = "await"

\* ------------------------------------------------------------------ C13
\* C13: after every step, the status of every task record is 'processing'
\* or 'completed', whatever its items' outcomes, and a record that was
\* 'completed' before the step still is.
C13_StatusProgressOnly ==
  [][\A t \in DOMAIN heap' :
       /\ heap'[t].status \in {"processing", "completed"}
       /\ (t \in Objs /\ heap[t].status = "completed")
            => heap'[t].status = "completed"]_vars

\* a task all of whose items failed is 'completed', and a cleanup call
\* has been made on its id
C13_Witness ==
  \E t \in Objs :
    /\ heap[t].status = "completed"
    /\ \A i \in 1..Len(heap[t].items) : heap[t].items[i].status = "error"
    /\ Len(heap[t].items) >= 2
    /\ resp.id = heap[t].id

\* ------------------------------------------------------------------ C14
\* C14: after every step, every report of getTaskStatus has status
\* 'completed' exactly when its current equals its total; and a step taken
\* when a task record is 'completed' starts no fetch for it: its loop has
\* returned and stays so.
C14_CompletedIffCursorAtEnd ==
  [][/\ \A id \in AllIds :
          getTaskStatus(id)' # Null =>
            (getTaskStatus(id)'[1].status = "completed"
               <=> getTaskStatus(id)'[1].current = getTaskStatus(id)'[1].total)
     /\ \A t \in Objs :
          heap[t].status = "completed" =>
            /\ fetchLog'[t] = fetchLog[t]
            /\ proc[t].pc = "done"
            /\ proc'[t].pc = "done"]_vars

\* two stored tasks, one reported 'completed' with a failed item, the other
\* 'processing' with its cursor short of its total
C14_Witness ==
  \E id1, id2 \in AllIds :
    /\ getTaskStatus(id1) # Null
    /\ getTaskStatus(id2) # Null
    /\ getTaskStatus(id1)[1].status = "completed"
    /\ getTaskStatus(id1)[1].current = getTaskStatus(id1)[1].total
    /\ getTaskStatus(id1)[1].completed < getTaskStatus(id1)[1].total
    /\ getTaskStatus(id2)[1].status = "processing"
    /\ getTaskStatus(id2)[1].current < getTaskStatus(id2)[1].total

\* ------------------------------------------------------------------ C15
\* C15: a task record is created with cursor 0 and one item per submitted
\* URL; every step leaves each record's cursor as it was or one higher, one
\* higher exactly when the step ends the processing of the item at the
\* cursor; the cursor stays within 0..items.length and equals the number of
\* items processed; no step removes a record, or changes the length of its
\* items list or the URL of an item.
C15_CursorMonotone ==
  [][/\ Objs \subseteq DOMAIN heap'
     /\ \A t \in Objs :
          LET c == heap[t].currentIndex
              n == Len(heap[t].items)
          IN /\ heap'[t].currentIndex \in {c, c + 1}
             /\ (heap'[t].currentIndex = c + 1)
                  <=> /\ c < n
                      /\ heap[t].items[Min(c + 1, n)].status = "downloading"
                      /\ Finished(heap'[t].items[Min(c + 1, n)])
             /\ Len(heap'[t].items) = n
             /\ \A i \in 1..n : heap'[t].items[i].url = heap[t].items[i].url
     /\ \A t \in DOMAIN heap' :
          /\ heap'[t].currentIndex \in 0..Len(heap'[t].items)
          /\ heap'[t].currentIndex =
               Cardinality({i \in 1..Len(heap'[t].items) :
                              Finished(heap'[t].items[i])})
          /\ t \notin Objs =>
               /\ heap'[t].currentIndex = 0
               /\ Len(heap'[t].items) = Len(submitted'[t].urls)
               /\ \A i \in 1..Len(heap'[t].items) :
                    heap'[t].items[i].url = submitted'[t].urls[i]]_vars

\* a record's cursor has reached the length of its two-item list, over a
\* completed and then a failed item
C15_Witness ==
  \E t \in Objs :
    /\ Len(heap[t].items) = 2
    /\ heap[t].currentIndex = 2
    /\ heap[t].items[1].status = "completed"
    /\ heap[t].items[2].status = "error"
    /\ heap[t].items[1].url = "A"
    /\ heap[t].items[2].url = "B"

\* ------------------------------------------------------------------ C16
\* one move of an item's status along pending -> downloading -> completed
\* or pending -> downloading -> error
Forward(a, b) ==
  <<a, b>> \in {<<"pending", "downloading">>, <<"downloading", "completed">>,
                <<"downloading", "error">>}

ForwardPath(p) == \A k \in 1..(Len(p) - 1) : Forward(p[k], p[k + 1])

\* the statuses the item at the cursor of t has in the turn that resolves
\* its fetch: the one it had, then each one assigned
ResolvedPath(t) ==
  <<heap[t].items[heap[t].currentIndex + 1].status>>
    \o statusWrites(heap[t], proc[t].res, completedFiles)

\* C16 (as claimed): between two turns of the event loop every item keeps
\* its status or makes one move forward, and within the turn that resolves
\* an item's fetch each status assigned to the item is a move forward from
\* the one before: no item leaves 'completed' or 'error'.
C16_ItemStatusForward ==
  [][\A t \in 1..MaxTasks :
       /\ t \in Objs =>
            \A i \in 1..Len(heap[t].items) :
              \/ heap'[t].items[i].status = heap[t].items[i].status
              \/ Forward(heap[t].items[i].status, heap'[t].items[i].status)
       /\ TitleExit(t) => ForwardPath(ResolvedPath(t))]_vars

\* ------------------------------------------------------------------ C17
\* C17 (as claimed): in every state, every item of every task record that
\* is 'completed' has filename and filepath set and no error, every item
\* that is 'error' has an error and neither filename nor filepath, and
\* every 'pending' or 'downloading' item has none of the three.
C17_ItemFieldsConsistent ==
  \A t \in Objs : \A i \in 1..Len(heap[t].items) :
    LET item == heap[t].items[i]
    IN /\ item.status = "completed" =>
            item.filename # Null /\ item.filepath # Null /\ item.error = Null
       /\ item.status = "error" =>
            item.error # Null /\ item.filename = Null /\ item.filepath = Null
       /\ item.status \in {"pending", "downloading"} =>
            item.filename = Null /\ item.filepath = Null /\ item.error = Null

\* ------------------------------------------------------------------ C18
\* the processQueue call made for task record t has not returned
Running(t) == t \in Objs /\ proc[t].pc # "done"

\* C18 (as claimed): in every state at most one processQueue call is
\* running against any one task id.
C18_OneLoopPerId ==
  \A t, u \in Objs :
    (Running(t) /\ Running(u) /\ heap[t].id = heap[u].id) => t = u

\* ------------------------------------------------------------------ C19
\* a POST /queue/create step with the given urls value
CreateStep(body) ==
  \E format \in Formats, r \in RandomStrings, r2 \in RandomStrings :
    queueCreate(body, format, r, r2)

\* C19: POST /queue/create with urls missing, not an array or empty answers
\* 400 and changes neither the store nor anything else; with a non-empty
\* array it adds exactly one task record, stored under the id it answers
\* with, answers that id and total = the number of URLs, and the record has
\* one item per URL, in the order of the URLs; no other record changes.
C19_CreateValidated ==
  [][\A body \in Bodies :
       CreateStep(body) =>
         IF body.kind # "array" \/ body.urls = <<>>
         THEN /\ reply'.status = <<400>>
              /\ heap' = heap
              /\ downloadQueue' = downloadQueue
              /\ completedFiles' = completedFiles
              /\ proc' = proc
              /\ disk' = disk
         ELSE /\ reply'.status = <<200>>
              /\ reply'.total = <<Len(body.urls)>>
              /\ Len(heap') = Len(heap) + 1
              /\ \A t \in Objs : heap'[t] = heap[t]
              /\ heap'[Len(heap')].id = reply'.taskId
              /\ DOMAIN downloadQueue' = DOMAIN downloadQueue \cup {reply'.taskId}
              /\ downloadQueue'[reply'.taskId] = Len(heap')
              /\ Len(heap'[Len(heap')].items) = Len(body.urls)
              /\ \A i \in 1..Len(body.urls) :
                   heap'[Len(heap')].items[i].url = body.urls[i]]_vars

\* a request was answered 400 while a task of two URLs, created by an
\* earlier request, is stored
C19_Witness ==
  /\ reply.status = <<400>>
  /\ \E t \in Objs : Stored(t) /\ Len(heap[t].items) = 2
                       /\ heap[t].items[1].url # heap[t].items[2].url

\* ------------------------------------------------------------------ C20
\* the record added by a creation step, and what is common to the claim
\* and its amendment: one item per URL with no filename, filepath or error,
\* task status 'processing', cursor 0, the record stored under its id with
\* an empty completed-file queue
CreatedRecord == heap'[Len(heap')]

CreatedFresh(urls) ==
  /\ Len(CreatedRecord.items) = Len(urls)
  /\ \A i \in 1..Len(urls) :
       /\ CreatedRecord.items[i].filename = Null
       /\ CreatedRecord.items[i].filepath = Null
       /\ CreatedRecord.items[i].error = Null
  /\ CreatedRecord.status = "processing"
  /\ CreatedRecord.currentIndex = 0
  /\ downloadQueue'[CreatedRecord.id] = Len(heap')
  /\ completedFiles'[CreatedRecord.id] = <<>>
  /\ \E id \in AllIds :
       /\ id = CreatedRecord.id
       /\ getTaskStatus(id)'[1].total = Len(urls)
       /\ getTaskStatus(id)'[1].current = 0
       /\ getTaskStatus(id)'[1].completed = 0

\* C20 (as claimed): when createTask has returned, every item of the record
\* it stored is 'pending'.
C20_AllPendingAtReturn ==
  [][\A body \in ValidBodies :
       CreateStep(body) =>
         /\ CreatedFresh(body.urls)
         /\ \A i \in 1..Len(body.urls) :
              CreatedRecord.items[i].status = "pending"]_vars

\* C20 (amended): when createTask has returned, the first item of the
\* record it stored is 'downloading', its fetch started, and every other
\* item is 'pending'; the rest is as claimed.
C20_FirstDownloadingAtReturn ==
  [][\A body \in ValidBodies :
       CreateStep(body) =>
         /\ CreatedFresh(body.urls)
         /\ CreatedRecord.items[1].status = "downloading"
         /\ \A i \in 2..Len(body.urls) :
              CreatedRecord.items[i].status = "pending"
         /\ proc'[Len(heap')].pc = "await"
         /\ fetchLog'[Len(heap')] = <<<<body.urls[1], CreatedRecord.items[1].format>>>>]_vars

\* createTask has just returned for two URLs: no tool run of the task has
\* ended, no client call was made on it
C20_Witness ==
  \E t \in Objs :
    /\ Stored(t)
    /\ Len(heap[t].items) = 2
    /\ heap[t].currentIndex = 0
    /\ heap[t].items[1].status = "downloading"
    /\ heap[t].items[2].status = "pending"
    /\ proc[t].pc = "await"
    /\ completedFiles[heap[t].id] = <<>>
    /\ drained[heap[t].id] = <<>>
    /\ resp.id # heap[t].id
    /\ reply.taskId = heap[t].id

\* ------------------------------------------------------------------ C21
\* C21: after every step, for every id in the store getTaskStatus returns
\* a report whose total is the number of the record's items, whose
\* completed is the number of them that are 'completed' now, whose current
\* is the cursor and whose items list gives each item's status, filename
\* and error in order, and the route answers it; for every id not in the
\* store, and so for the id of a cleanupTask call that has returned, it
\* returns null and the route answers 404.
C21_StatusSnapshot ==
  [][\A id \in AllIds :
       /\ IF Has(downloadQueue', id)
          THEN /\ getTaskStatus(id)'[1].status = heap'[downloadQueue'[id]].status
               /\ getTaskStatus(id)'[1].total = Len(heap'[downloadQueue'[id]].items)
               /\ getTaskStatus(id)'[1].completed =
                    Cardinality({i \in 1..Len(heap'[downloadQueue'[id]].items) :
                      heap'[downloadQueue'[id]].items[i].status = "completed"})
               /\ getTaskStatus(id)'[1].current = heap'[downloadQueue'[id]].currentIndex
               /\ Len(getTaskStatus(id)'[1].items) = Len(heap'[downloadQueue'[id]].items)
               /\ \A i \in 1..Len(heap'[downloadQueue'[id]].items) :
                    getTaskStatus(id)'[1].items[i] =
                      [status |-> heap'[downloadQueue'[id]].items[i].status,
                       filename |-> heap'[downloadQueue'[id]].items[i].filename,
                       error |-> heap'[downloadQueue'[id]].items[i].error]
               /\ queueStatusReply(id)'[1] = 200
               /\ queueStatusReply(id)'[2] = getTaskStatus(id)'[1]
          ELSE /\ getTaskStatus(id)' = Null
               /\ queueStatusReply(id)' = <<404>>
       /\ (CleanupStep(id) /\ resp'.out = <<200>>) =>
            /\ getTaskStatus(id)' = Null
            /\ queueStatusReply(id)' = <<404>>]_vars

\* a stored task reports its one item completed, with its filename, while
\* the id of a task that was created and then cleaned up is answered 404
C21_Witness ==
  \E id, gone \in AllIds :
    /\ getTaskStatus(id) # Null
    /\ getTaskStatus(id)[1].status = "completed"
    /\ getTaskStatus(id)[1].total = 1
    /\ getTaskStatus(id)[1].completed = 1
    /\ getTaskStatus(id)[1].current = 1
    /\ getTaskStatus(id)[1].items[1].status = "completed"
    /\ getTaskStatus(id)[1].items[1].filename # Null
    /\ \E t \in Objs : heap[t].id = gone
    /\ resp = [id |-> gone, out |-> <<200>>]
    /\ queueStatusReply(gone) = <<404>>

\* ------------------------------------------------------------------ C22
\* C22 (as claimed): the tool of every fetch is started with, for a format
\* string that contains '--', the part before the separator as -f and
\* extraction to the part after it requested (-x --audio-format), and for
\* a format string without '--' the whole string as -f and no extraction.
\* ('bestaudio--m4a': -f bestaudio, target m4a; 'best': -f best, no target.)
C22_FormatParsed ==
  \A t \in Objs :
    proc[t].pc = "await" =>
      LET format == ItemAt(heap[t], heap[t].currentIndex).format
          k == indexOfSep(format, 1)
      IN IF k # 0
         THEN /\ proc[t].args.f = SubSeq(format, 1, k - 1)
              /\ proc[t].args.x
              /\ proc[t].args.audioFormat = <<split(format)[2]>>
         ELSE /\ proc[t].args.f = format
              /\ ~proc[t].args.x
              /\ proc[t].args.audioFormat = Null

\* ------------------------------------------------------------------ C23
\* C23: the turn in which the title lookup ends always resolves the fetch
\* with the file found, whatever the lookup did; when it yielded no title
\* the filename is 'download' followed by the extension of that file; the
\* item of a stored task becomes 'completed' with that filename.  And the
\* only rejections of a fetch are the exit code, the missing file and the
\* spawn error: none comes from the title lookup.
C23_TitleFailureSwallowed ==
  [][\A t \in 1..MaxTasks :
       /\ TitleExit(t) =>
            /\ proc[t].res.ok
            /\ proc[t].res.filepath \in matchingFiles(disk, proc[t].tempId)
            /\ ~proc[t].ev.title =>
                 proc[t].res.filename = <<"download", proc[t].res.filepath[3]>>
            /\ heap'[t].items[heap[t].currentIndex + 1].filename = proc[t].res.filename
            /\ Has(completedFiles, heap[t].id) =>
                 /\ heap'[t].items[heap[t].currentIndex + 1].status = "completed"
                 /\ heap'[t].items[heap[t].currentIndex + 1].error = Null
       /\ (t \in Objs /\ proc[t].pc = "await" /\ proc'[t] # proc[t]
             /\ proc'[t].pc # "title") =>
            \/ heap'[t].items[heap[t].currentIndex + 1].error \in {Stderr, SpawnMsg}
            \/ /\ heap'[t].items[heap[t].currentIndex + 1].error = NotFoundMsg
               /\ matchingFiles(disk', proc[t].tempId) = {}]_vars

\* an item is completed under the generic name with the extension of its
\* m4a file
C23_Witness ==
  \E t \in Objs : \E i \in 1..Len(heap[t].items) :
    /\ heap[t].items[i].status = "completed"
    /\ heap[t].items[i].filename = <<"download", "m4a">>
    /\ heap[t].items[i].filepath # Null
    /\ heap[t].items[i].filepath[3] = "m4a"

\* ------------------------------------------------------------------ C24
\* the step in which the tool run awaited by the loop of t exits with code
\* 0 and the directory holds no file with the prefix of this invocation
OutputMissing(t) ==
  /\ t \in Objs
  /\ proc[t].pc = "await"
  /\ matchingFiles(disk, proc[t].tempId) = {}
  /\ \E ev \in AllEvents : ev.kind = "missing" /\ FetchExit(t, {ev})

\* the record of t after a tool run that exits with a code other than 0
afterFetchFailed(t) == loopHead(advance(recordError(heap[t], Stderr)))

\* C24: a tool run that exits 0 without leaving a file with the prefix of
\* its invocation does to the task what a non-zero exit does: item i becomes
\* 'error' with a message, the cursor moves on by one, nothing is appended
\* to any array of descriptors, no other item and no other task changes, and
\* the record is the one a non-zero exit leaves but for the message (the
\* task status stays 'processing' while items remain).
C24_MissingLikeFailed ==
  [][\A t \in 1..MaxTasks :
       OutputMissing(t) =>
         LET i == heap[t].currentIndex + 1
         IN /\ heap'[t].items[i].status = "error"
            /\ heap'[t].items[i].error = NotFoundMsg
            /\ heap'[t].items[i].filepath = Null
            /\ heap'[t].currentIndex = heap[t].currentIndex + 1
            /\ completedFiles' = completedFiles
            /\ \A j \in 1..(i - 1) : heap'[t].items[j] = heap[t].items[j]
            /\ i < Len(heap[t].items) => heap'[t].status = heap[t].status
            /\ heap'[t] = [afterFetchFailed(t) EXCEPT !.items[i].error = NotFoundMsg]
            /\ \A u \in Objs \ {t} : heap'[u] = heap[u]
            /\ <<downloadQueue, disk, drained>>' = <<downloadQueue, disk, drained>>]_vars

\* the first item of a task ended in 'error' for its missing file, with
\* nothing queued, and the task went on to complete its second item
C24_Witness ==
  \E t \in Objs :
    /\ Len(heap[t].items) = 2
    /\ heap[t].items[1].status = "error"
    /\ heap[t].items[1].error = NotFoundMsg
    /\ heap[t].items[2].status = "completed"
    /\ heap[t].status = "completed"

\* ------------------------------------------------------------------ C25
\* the descriptors in seq that carry the 0-based index i
WithIndex(seq, i) == {k \in 1..Len(seq) : seq[k].index = i}

CompletedItems(task) ==
  {i \in 1..Len(task.items) : task.items[i].status = "completed"}

\* C25 (as claimed): for every stored task, among the descriptors returned
\* by drain calls on its id and those still in its array, each 'completed'
\* item has exactly one, carrying the item's filename and filepath; there
\* are as many descriptors as 'completed' items, and none carries the index
\* of an item that is not 'completed'.
C25_OneDescriptorPerCompleted ==
  \A t \in Objs :
    Stored(t) =>
      LET all == DrainOrder(heap[t].id)
          items == heap[t].items
      IN /\ \A i \in CompletedItems(heap[t]) :
              /\ Cardinality(WithIndex(all, i - 1)) = 1
              /\ \A k \in WithIndex(all, i - 1) :
                   /\ all[k].filename = items[i].filename
                   /\ all[k].filepath = items[i].filepath
         /\ Len(all) = Cardinality(CompletedItems(heap[t]))
         /\ \A k \in 1..Len(all) : all[k].index + 1 \in CompletedItems(heap[t])

\* ------------------------------------------------------------------ C26
\* a getNextCompletedFile(taskId) call that returns a descriptor
DrainStep(taskId) ==
  /\ Has(completedFiles, taskId)
  /\ completedFiles[taskId] # <<>>
  /\ getNextCompletedFile(taskId)

\* C26: a drain call that returns the descriptor of item i takes it off the
\* array of its id and changes nothing else: every task record (statuses,
\* filenames, filepaths, cursors, task statuses), the store, the other
\* arrays and the files are as before, and getFileInfo answers for every
\* index, i among them, what it answered before the call.
C26_DrainTouchesQueueOnly ==
  [][\A taskId \in AllIds :
       DrainStep(taskId) =>
         /\ completedFiles' = [completedFiles EXCEPT ![taskId] = Tail(@)]
         /\ heap' = heap
         /\ downloadQueue' = downloadQueue
         /\ disk' = disk
         /\ proc' = proc
         /\ \A index \in Indices :
              getFileInfo(taskId, index)' = getFileInfo(taskId, index)
         /\ getTaskStatus(taskId)' = getTaskStatus(taskId)]_vars

\* the descriptor of a completed item has been drained and getFileInfo
\* answers for its index the filename and filepath the descriptor carried
C26_Witness ==
  \E id \in AllIds :
    /\ drained[id] # <<>>
    /\ getFileInfo(id, <<drained[id][1].index>>) =
         <<drained[id][1].filename, drained[id][1].filepath>>

\* ------------------------------------------------------------------ C27
\* a step of the processQueue call of task record t: the handler of its
\* tool's exit, or the end of its title lookup
LoopStep(t) == FetchExit(t, Events) \/ TitleExit(t)

\* the array of descriptors of the task of record u
QueueOf(cf, u) == IF Has(cf, heap[u].id) THEN <<cf[heap[u].id]>> ELSE Null

\* the tools of two tasks are running at the same time
BothInFlight ==
  \E t, u \in Objs : t # u /\ proc[t].pc = "await" /\ proc[u].pc = "await"

\* C27 (as claimed): a step of one task's loop leaves the record and the
\* array of descriptors of every other task as they were.
C27_TasksIndependent ==
  [][\A t \in 1..MaxTasks :
       LoopStep(t) =>
         \A u \in Objs \ {t} :
           /\ heap'[u] = heap[u]
           /\ QueueOf(completedFiles', u) = QueueOf(completedFiles, u)]_vars

\* ------------------------------------------------------------------ C28
\* a cleanupTask call on the id of a task whose loop has items left
CleanupWhileRunning(t) ==
  /\ Stored(t)
  /\ hasNext(heap[t])
  /\ \E failAt \in 0..MaxUrls : cleanupTask(heap[t].id, failAt)

\* the loop of t has returned after one downloadFile call per URL
CalledForAll(t) ==
  /\ t \in Objs
  /\ proc[t].pc = "done"
  /\ Len(fetchLog[t]) = Len(submitted[t].urls)

\* C28: a cleanupTask call made while the cursor is short of the end
\* leaves the loop where it is, suspended on the same tool run, with no
\* call taken back; and, every tool run ending (LiveSpec), a running loop
\* whose task is no longer in the store still returns after one
\* downloadFile call for every URL of the task.
C28_CleanupCancelsNothing ==
  /\ [][\A t \in 1..MaxTasks :
          CleanupWhileRunning(t) =>
            /\ proc'[t] = proc[t]
            /\ proc[t].pc # "done"
            /\ fetchLog'[t] = fetchLog[t]
            /\ heap'[t] = heap[t]]_vars
  /\ \A t \in 1..MaxTasks :
       (Running(t) /\ ~Stored(t)) ~> CalledForAll(t)

\* a task was removed while its first tool run was in flight (the push of
\* that run found no array) and its loop went on to call downloadFile for
\* the second URL and returned
C28_Witness ==
  \E t \in Objs :
    /\ Len(heap[t].items) = 2
    /\ heap[t].items[1].error = TypeErrorMsg
    /\ Finished(heap[t].items[2])
    /\ CalledForAll(t)
    /\ fetchLog[t][2][1] = "B"

\* ------------------------------------------------------------------ C29
\* the downloadFile call of the loop of t has not settled: its tool is
\* running or its 'close' handler is looking the title up
Fetching(t) == t \in Objs /\ proc[t].pc \in {"await", "title"}

\* C29 (as claimed): the downloadFile calls that have not settled have
\* pairwise different temporary paths, and the file a 'close' handler found
\* by the prefix is one the tool run of its own call wrote.
C29_TempPathsDisjoint ==
  /\ \A t, u \in Objs :
       (Fetching(t) /\ Fetching(u) /\ t # u) => proc[t].tempId # proc[u].tempId
  /\ \A t \in Objs :
       proc[t].pc = "title" =>
         proc[t].res.filepath \in written(proc[t].tempId, proc[t].ev)

\* ------------------------------------------------------------------ C30
\* the task the page created is stored, its status is 'completed' and
\* every descriptor pushed for it has been returned by a drain call
CompletedAndDrained ==
  /\ client.pc # "idle"
  /\ Has(downloadQueue, client.taskId)
  /\ heap[downloadQueue[client.taskId]].status = "completed"
  /\ completedFiles[client.taskId] = <<>>

\* the page has triggered one retrieval for each descriptor drained, for
\* the descriptor's index and in the order of the drain calls
OneClickPerNotification ==
  client.pc # "idle" =>
    /\ Len(client.clicks) = Len(drained[client.taskId])
    /\ client.downloadedCount = Len(client.clicks)
    /\ \A k \in 1..Len(client.clicks) :
         client.clicks[k] = drained[client.taskId][k].index

\* C30 (as claimed): once the task the page created is 'completed' and its
\* notifications are all drained, the page stops polling and sends DELETE
\* for the task, however many items ended in 'error'; and it triggers
\* exactly one file retrieval per notification drained.
C30_PageStopsAndDeletes ==
  /\ CompletedAndDrained ~> (client.pc = "deleted")
  /\ []OneClickPerNotification

\* ------------------------------------------------------------------ C31
\* neither Map holds the id: it was never given out, or its task was
\* cleaned up
Absent(id) == ~Has(downloadQueue, id) /\ ~Has(completedFiles, id)

NoFile == [hasFile |-> FALSE, index |-> Null, filename |-> Null]

\* C31: for an id neither Map holds, status answers null / 404, next
\* answers none / {hasFile: false}, download answers null / 404 for every
\* index, and DELETE answers 200 and never throws; none of the four calls
\* changes a Map, a task record or a file.
C31_AbsentIdHarmless ==
  [][\A id \in AllIds :
       Absent(id) =>
         /\ getTaskStatus(id) = Null
         /\ queueStatusReply(id) = <<404>>
         /\ queueNextReply(id) = NoFile
         /\ \A index \in Indices :
              /\ getFileInfo(id, index) = Null
              /\ queueDownloadReply(id, index) = <<404>>
              /\ queueDownload(id, index) => UNCHANGED server
         /\ queueStatus(id) => UNCHANGED server
         /\ getNextCompletedFile(id) => UNCHANGED server
         /\ \A failAt \in 0..MaxUrls :
              cleanupTask(id, failAt) =>
                /\ failAt = 0
                /\ resp' = [id |-> id, out |-> <<200>>]
                /\ UNCHANGED <<now, heap, downloadQueue, completedFiles, disk,
                               proc, fetchLog, submitted, drained, reply>>]_vars

\* DELETE was answered 200 for an id that was never given out, while the
\* id of a task that was cleaned up is absent too
C31_Witness ==
  /\ resp = [id |-> UnknownId, out |-> <<200>>]
  /\ \E t \in Objs : Absent(heap[t].id)

\* ------------------------------------------------------------------ C32
\* item `index` of the task stored under id is 'completed' and its file is
\* in the directory
Servable(id, index) ==
  /\ Has(downloadQueue, id)
  /\ hasElement(heap[downloadQueue[id]].items, index)
  /\ ItemAt(heap[downloadQueue[id]], index[1]).status = "completed"
  /\ ItemAt(heap[downloadQueue[id]], index[1]).filepath \in disk

\* C32: GET /queue/download/:taskId/:index answers 404 exactly when the
\* task or the index is unknown, the item is not 'completed' or its file is
\* not on disk; otherwise it sends the file at the item's filepath under
\* the item's filename; and the request leaves every file, Map and task
\* record as it was.
C32_DownloadIffServable ==
  /\ [](\A id \in AllIds : \A index \in Indices :
          IF Servable(id, index)
          THEN queueDownloadReply(id, index) =
                 <<200, ItemAt(heap[downloadQueue[id]], index[1]).filename,
                        ItemAt(heap[downloadQueue[id]], index[1]).filepath>>
          ELSE queueDownloadReply(id, index) = <<404>>)
  /\ [][\A id \in AllIds : \A index \in Indices :
          queueDownload(id, index) => UNCHANGED server]_vars

\* of a stored task one completed item is served and another, whose file
\* is gone from the directory, is answered 404
C32_Witness ==
  \E id \in AllIds :
    /\ queueDownloadReply(id, <<0>>) = <<404>>
    /\ getFileInfo(id, <<0>>) # Null
    /\ queueDownloadReply(id, <<1>>)[1] = 200

\* ------------------------------------------------------------------ C33
\* the answer the 'close' handler of the request gave
ProxyAnswer == proxy.responses[Len(proxy.responses)]

\* the 'close' handler of the request has run and the directory is still
\* as it left it
ProxyClosed ==
  /\ proxy.ev # Null
  /\ proxy.pc = "done" => ProxyAnswer[1] # 200

\* the tool invocation of the request is the one downloadFile builds for
\* the same url, format and temporary path
SameInvocation ==
  proxy.args # Null =>
    proxy.args = ytdlpArgs(proxy.url[1], proxy.format[1], proxy.tempId)

\* the request is answered 200 with the filename and file downloadFile
\* resolves with, and 500 where downloadFile rejects
SameOutcome ==
  ProxyClosed =>
    LET results == downloadFileResults(proxy.ev, proxy.tempId, disk)
    IN IF ProxyAnswer[1] = 200
       THEN Resolve(ProxyAnswer[2], ProxyAnswer[3]) \in results
       ELSE \A res \in results : ~res.ok

\* C33 (as claimed): for the same url and format /proxy-download starts
\* the tool with the options downloadFile starts it with (selector, output
\* template, --no-playlist, transcode options, cookie options) and maps its
\* outcome (non-zero exit, missing file, title fallback) as downloadFile
\* does.
C33_SameFetchOperation == SameInvocation /\ SameOutcome

\* ------------------------------------------------------------------ C34
\* the number of items of the task with a status in S
CountIn(task, S) ==
  Cardinality({i \in 1..Len(task.items) : task.items[i].status \in S})

\* C34: in every state, for every task record (stored or not), the items
\* before the cursor are 'completed' or 'error'; while the cursor is short
\* of the end the item at the cursor is 'downloading' and the items after
\* it are 'pending'; the cursor never passes the end; so the 'completed'
\* and 'error' items together are as many as the cursor says.
C34_CursorPartitionsItems ==
  \A t \in Objs :
    LET task == heap[t]
        n == Len(task.items)
    IN /\ task.currentIndex \in 0..n
       /\ \A i \in 1..n :
            /\ i < task.currentIndex + 1 => Finished(task.items[i])
            /\ i = task.currentIndex + 1 => task.items[i].status = "downloading"
            /\ i > task.currentIndex + 1 => task.items[i].status = "pending"
       /\ CountIn(task, {"completed"}) + CountIn(task, {"error"}) = task.currentIndex

\* a task of two items has one behind the cursor, 'error', and the other
\* at the cursor, 'downloading', while its id is no longer in the store
C34_Witness ==
  \E t \in Objs :
    /\ Len(heap[t].items) = 2
    /\ heap[t].currentIndex = 1
    /\ heap[t].items[1].status = "error"
    /\ heap[t].items[2].status = "downloading"
    /\ ~Stored(t)

\* ------------------------------------------------------------------ C35
\* C35 (as claimed): the turn in which the promise of downloadFile resolves
\* for the item at the cursor leaves that item 'completed' with no error,
\* whatever drain and cleanup calls came before.
C35_SuccessRecorded ==
  [][\A t \in 1..MaxTasks :
       TitleExit(t) =>
         /\ heap'[t].items[heap[t].currentIndex + 1].status = "completed"
         /\ heap'[t].items[heap[t].currentIndex + 1].error = Null]_vars

\* ------------------------------------------------------------------ C36
\* C36 (as claimed): the handlers of a /proxy-download request send at most
\* one answer, whatever events the tool emits.
C36_OneResponse == Len(proxy.responses) <= 1

====
